---- MODULE Spec2Model ----
(***************************************************************************)
(* Model of tethne's streaming record parsers (tethne/readers/base.py):    *)
(* BaseParser, IterParser, the field-tagged text backend FTParser, the     *)
(* incremental XML backend XMLParser and the triple backend RDFParser.     *)
(*                                                                         *)
(* A parser instance is the record `self`, with the attribute names of the *)
(* source.  The input file is read once, front to back; the model draws    *)
(* each line (or XML end event) when the parser reads it, which is the     *)
(* same as fixing the file beforehand.  `full` is a second parser instance *)
(* of the same class reading the same input with parse_only left unset.    *)
(***************************************************************************)
EXTENDS Integers, Sequences, FiniteSets, TLC

VARIABLES
    backend,    \* "FT" | "XML" | "RDF": the parser class that was instantiated;
                \* "WOS": a call of readers.parse_wos, whose locals are `self`;
                \* "handle": an IterParser (self) and an RDFParser (full)
                \* whose handle() methods are called with the same pairs
    pc,         \* "open" | "IOError" | "start" | "ready" | "parse" | "done" |
                \* "raised" | "deleted"
    pcFull,     \* the same for the twin instance
    self,       \* the parser instance
    full,       \* twin instance, same input, parse() called without parse_only
    nread,      \* lines / events consumed from the input so far
    nstart,     \* start-tag lines / entry elements seen in the input so far
    log,        \* per created Entry: what handle() was given for it
    hooks,      \* per created Entry: invocations of each postprocess_<field>
    finalized   \* per created Entry: runs of postprocess_entry on it

vars == <<backend, pc, pcFull, self, full, nread, nstart, log, hooks, finalized>>

-----------------------------------------------------------------------------
(* Bounds of the model.                                                    *)

\* Content lines of a text file; XML end events before the root closes.
MaxLines == 4

MaxEvents == 3

\* Characters of the value text of one tagged line.
MaxRaw == 4

\* (tag, data) pairs handed to handle() directly.
MaxPairs == 3

\* Runs of postprocess_entry on one Entry, calls of parse() after the first
\* included.
MaxRuns == 2

-----------------------------------------------------------------------------
(* Python values.  Every value has the same shape: a type tag, the text of *)
(* a scalar (for a number: its repr) and the items of a list.              *)

PyNone == [t |-> "none", s |-> <<>>, l |-> <<>>]

Str(s) == [t |-> "str", s |-> s, l |-> <<>>]

PyInt(s) == [t |-> "int", s |-> s, l |-> <<>>]

PyFloat(s) == [t |-> "float", s |-> s, l |-> <<>>]

PyList(l) == [t |-> "list", s |-> <<>>, l |-> l]

\* Not a value: marks an expression that raises TypeError.
TypeError == [t |-> "TypeError", s |-> <<>>, l |-> <<>>]

\* Python truthiness: None, '', 0, 0.0 and [] are false.
Truthy(v) ==
    CASE v.t = "none"  -> FALSE
      [] v.t = "str"   -> v.s # <<>>
      [] v.t = "int"   -> v.s # <<"0">>
      [] v.t = "float" -> v.s # <<"0", ".", "0">>
      [] v.t = "list"  -> v.l # <<>>

\* `value in [None, '']`
NoneOrEmpty(v) == v.t = "none" \/ (v.t = "str" /\ v.s = <<>>)

RECURSIVE Repr(_)
RECURSIVE ReprItems(_)
\* repr(value), as Python 3 prints it.
Repr(v) ==
    CASE v.t = "none" -> <<"N", "o", "n", "e">>
      [] v.t = "str"  -> <<"'">> \o v.s \o <<"'">>
      [] v.t = "list" -> <<"[">> \o ReprItems(v.l) \o <<"]">>
      [] OTHER        -> v.s

ReprItems(l) ==
    IF l = <<>> THEN <<>>
    ELSE IF Len(l) = 1 THEN Repr(l[1])
    ELSE Repr(l[1]) \o <<",", " ">> \o ReprItems(Tail(l))

\* unicode(data): the text of a string, the repr of anything else.
Unicode(v) == IF v.t = "str" THEN v.s ELSE Repr(v)

Digits == {"0", "1"}

Space == {" ", "\n", "\r"}

RECURSIVE LStrip(_)
LStrip(s) == IF s # <<>> /\ Head(s) \in Space THEN LStrip(Tail(s)) ELSE s

RECURSIVE RStrip(_)
RStrip(s) ==
    IF s # <<>> /\ s[Len(s)] \in Space THEN RStrip(SubSeq(s, 1, Len(s) - 1)) ELSE s

\* str.strip()
Strip(s) == RStrip(LStrip(s))

RECURSIVE DropZeros(_)
DropZeros(s) == IF Len(s) > 1 /\ Head(s) = "0" THEN DropZeros(Tail(s)) ELSE s

AllDigits(s) == s # <<>> /\ \A i \in 1..Len(s) : s[i] \in Digits

\* int(value) succeeds: optional surrounding whitespace, then digits.
IsIntLiteral(s) == AllDigits(Strip(s))

DotAt(s) == CHOOSE i \in 1..Len(s) : s[i] = "."

\* float(value) succeeds where int(value) did not: digits '.' digits, with
\* at least one digit.
IsFloatLiteral(s) ==
    LET u == Strip(s) IN
    /\ Cardinality({i \in 1..Len(u) : u[i] = "."}) = 1
    /\ Len(u) > 1
    /\ \A i \in 1..Len(u) : u[i] \in Digits \cup {"."}

RECURSIVE DropTrailingZeros(_)
DropTrailingZeros(s) ==
    IF Len(s) > 1 /\ s[Len(s)] = "0"
    THEN DropTrailingZeros(SubSeq(s, 1, Len(s) - 1)) ELSE s

FloatRepr(s) ==
    LET u == Strip(s)
        d == DotAt(u)
        ip == SubSeq(u, 1, d - 1)
        fp == SubSeq(u, d + 1, Len(u))
    IN  DropZeros(IF ip = <<>> THEN <<"0">> ELSE ip) \o <<".">>
            \o DropTrailingZeros(IF fp = <<>> THEN <<"0">> ELSE fp)

\* _cast without any conversion.
CastNone(s) == Str(s)

\* _cast: int, else float, else the value unchanged.
Cast(s) ==
    IF IsIntLiteral(s) THEN PyInt(DropZeros(Strip(s)))
    ELSE IF IsFloatLiteral(s) THEN PyFloat(FloatRepr(s))
    ELSE Str(s)

RECURSIVE RemoveCR(_)
RemoveCR(s) ==
    IF s = <<>> THEN <<>>
    ELSE IF Head(s) = "\r" THEN RemoveCR(Tail(s))
    ELSE <<Head(s)>> \o RemoveCR(Tail(s))

\* unicodedata.normalize('NFKD', data).replace('\r', '') for text data; the
\* model's alphabet is ASCII, which NFKD leaves alone.
Normalize(v) == IF v.t = "str" THEN Str(RemoveCR(v.s)) ELSE v

-----------------------------------------------------------------------------
(* Entries: dobject instances, a mapping from attribute name to value.     *)

NoTag == "<None>"

\* entry_class(): an object with no attributes.
EmptyEntry == [f \in {} |-> PyNone]

HasAttr(e, f) == f \in DOMAIN e

\* setattr(entry, f, v)
SetAttr(e, f, v) == [x \in (DOMAIN e) \cup {f} |-> IF x = f THEN v ELSE e[x]]

\* SetLast on the first element of the list instead of the last.
SetFirst(data, f, v) == [data EXCEPT ![1] = SetAttr(data[1], f, v)]

\* self.data[-1] with one attribute set (BaseParser.set_value).
SetLast(data, f, v) == [data EXCEPT ![Len(data)] = SetAttr(data[Len(data)], f, v)]

-----------------------------------------------------------------------------
(* What a parser subclass configures: the tags registry, concat_fields,    *)
(* one handle_<tag> method and the postprocess_<field> hooks.              *)

\* tags: raw tag -> field name.  Either the base class's empty registry or
\* one that renames two raw tags to the same field.
Registries == { [t \in {} |-> "title"], [t \in {"TI", "AU"} |-> "title"] }

\* concat_fields: the base class's empty list, or some field names.
ConcatChoices == { {}, {"TI", "title", "PY"} }

\* The raw tag that has a handle_<tag> method, and what that method does
\* with its argument: nothing registered, wrap it in a list, return None,
\* or raise.
HandledTag == "TI"

HandlerKinds == {"absent", "list", "none", "raise"}

\* Field names with a postprocess_<field> method.
Hooked == {"AU", "title"}

\* What the postprocess_<field> methods do with the Entry is the parser's
\* hook_kind: "observe" (only look at it) or "derive" (each adds its own
\* mark to the attribute `ident`).

\* The orders in which `for field in self.fields` may visit the hooked
\* field names: the iteration order of a set of strings follows their
\* hashes, which differ from one interpreter process to the next.
FieldOrders == { <<"AU", "title">>, <<"title", "AU">> }

DefaultOrder == <<"AU", "title">>

\* BaseParser._get_handler: the handler of a raw tag, or "absent".
GetHandler(p, tag) == IF tag = HandledTag THEN p.handler ELSE "absent"

\* handler(data) for a handler that returns.
ApplyHandler(kind, data) ==
    CASE kind = "list"  -> PyList(<<data>>)
      [] kind = "none"  -> PyNone
      [] OTHER          -> data

\* Rename without the registry: every pair is stored under its raw tag.
RenameNone(p, tag) == tag

\* `if tag in self.tags: tag = self.tags[tag]`
Rename(p, tag) == IF tag \in DOMAIN p.tags THEN p.tags[tag] ELSE tag

\* The paths a parser may be given: one that names no file, and a file.
Paths == {"missing", "file"}

\* os.path.exists(path); open(path) succeeds.
Exists(path) == path = "file"

\* BaseParser.__init__ and IterParser.__init__ without the calls of open()
\* and start().
NewParser(path, tags, concat, handler) ==
    [ path |-> path,
      data |-> <<>>, fields |-> {}, current_tag |-> NoTag, last_tag |-> NoTag,
      at_eof |-> FALSE, has_parse_only |-> FALSE, parse_only |-> {},
      requested |-> {},
      tags |-> tags, concat_fields |-> concat, handler |-> handler,
      hook_kind |-> "observe", field_order |-> DefaultOrder ]

\* NewEntry with the new Entry already holding a field for the tag of the
\* line that was read last.
NewEntryTagged(p) ==
    [p EXCEPT !.data = Append(p.data, [f \in {p.current_tag} |-> PyNone])]

\* BaseParser.new_entry
NewEntry(p) == [p EXCEPT !.data = Append(p.data, EmptyEntry)]

\* The hooks BaseParser.postprocess_entry invokes, each once: those of the
\* fields seen so far that the last Entry has.
PostprocessFields(p) ==
    IF p.data = <<>> THEN {}
    ELSE {f \in p.fields : HasAttr(p.data[Len(p.data)], f) /\ f \in Hooked}

\* postprocess_<f>(entry) of a deriving subclass:
\* entry.ident = getattr(entry, 'ident', '') + <first letter of f>
Mark(f) == IF f = "AU" THEN <<"A">> ELSE <<"t">>

DeriveIdent(e, f) ==
    SetAttr(e, "ident",
            Str((IF HasAttr(e, "ident") THEN e["ident"].s ELSE <<>>) \o Mark(f)))

\* The loop of postprocess_entry over the field names in `order`.
RECURSIVE RunHooks(_, _)
RunHooks(p, order) ==
    IF order = <<>> THEN p
    ELSE LET f == Head(order)
             e == p.data[Len(p.data)]
             q == IF f \in p.fields /\ HasAttr(e, f) /\ f \in Hooked
                  THEN [p EXCEPT !.data[Len(p.data)] = DeriveIdent(e, f)]
                  ELSE p
         IN  RunHooks(q, Tail(order))

\* PostprocessEntry of a class whose hooks always derive.
PostprocessEntryDerive(p) ==
    IF p.data = <<>> THEN p
    ELSE RunHooks(p, p.field_order)

\* BaseParser.postprocess_entry: the parser afterwards.
PostprocessEntry(p) ==
    IF p.data = <<>> \/ p.hook_kind # "derive" THEN p
    ELSE RunHooks(p, p.field_order)

-----------------------------------------------------------------------------
(* IterParser.handle                                                       *)

\* MergeValue with the list branch replacing the list by the incoming value.
MergeValueReplace(e, f, data, concat) ==
    IF HasAttr(e, f)
    THEN IF f \in concat
         THEN IF e[f].t = "str"
              THEN Str(e[f].s \o <<" ">> \o Unicode(data))
              ELSE TypeError
         ELSE IF e[f].t = "list" THEN data
         ELSE IF ~NoneOrEmpty(e[f]) THEN PyList(<<e[f], data>>)
         ELSE e[f]
    ELSE data

\* Lines 162-175: the value the field holds after `data` is merged into it.
\* TypeError stands for the exception ' '.join raises on a non-string.
MergeValue(e, f, data, concat) ==
    IF HasAttr(e, f)
    THEN IF f \in concat
         THEN IF e[f].t = "str"
              THEN Str(e[f].s \o <<" ">> \o Unicode(data))
              ELSE TypeError
         ELSE IF e[f].t = "list" THEN PyList(Append(e[f].l, data))
         ELSE IF ~NoneOrEmpty(e[f]) THEN PyList(<<e[f], data>>)
         ELSE e[f]
    ELSE data

\* Lines 138-142: the boundary part of handle, run for every pair.
\* XMLParser.new_entry runs postprocess_entry once more before it appends.
Boundary(p, isStart, isEnd) ==
    LET q == IF isEnd THEN PostprocessEntry(p) ELSE p IN
    IF isStart
    THEN NewEntry(IF backend = "XML" THEN PostprocessEntry(q) ELSE q)
    ELSE q

\* Line 144: `if not data or not tag: return`
Skipped(tag, data) == ~Truthy(data) \/ tag = NoTag

\* Line 147: the pair is dropped by parse_only.
Filtered(p, tag) ==
    p.has_parse_only /\ p.parse_only # {} /\ tag \notin p.parse_only

\* Store with the incoming value written over whatever the field holds.
StoreNoMerge(p, tag, data) ==
    IF Skipped(tag, data) \/ Filtered(p, tag) THEN [p |-> p, raised |-> FALSE]
    ELSE
      LET h == GetHandler(p, tag)
          d == IF h = "absent" THEN Normalize(data)
               ELSE ApplyHandler(h, Normalize(data))
          f == Rename(p, tag)
      IN  IF h = "raise" THEN [p |-> p, raised |-> TRUE]
          ELSE [p |-> [p EXCEPT !.data = SetLast(p.data, f, d),
                                !.fields = p.fields \cup {f}],
                raised |-> FALSE]

\* Lines 144-176 on the parser after the boundary part.  Returns the parser
\* and whether an exception left handle.
Store(p, tag, data) ==
    IF Skipped(tag, data) \/ Filtered(p, tag) THEN [p |-> p, raised |-> FALSE]
    ELSE
      LET h == GetHandler(p, tag)
          d == IF h = "absent" THEN Normalize(data)
               ELSE ApplyHandler(h, Normalize(data))
          f == Rename(p, tag)
          v == IF h = "raise" THEN TypeError
               ELSE MergeValue(p.data[Len(p.data)], f, d, p.concat_fields)
      IN  IF h = "raise" \/ v.t = "TypeError" THEN [p |-> p, raised |-> TRUE]
          ELSE [p |-> [p EXCEPT !.data = SetLast(p.data, f, v),
                                !.fields = p.fields \cup {f}],
                raised |-> FALSE]

\* Handle with the test of line 144 moved before the boundary part: a pair
\* without data does nothing at all.
HandleSkipFirst(p, tag, data, isStart, isEnd) ==
    IF Skipped(tag, data) THEN [p |-> p, raised |-> FALSE]
    ELSE Store(Boundary(p, isStart, isEnd), tag, data)

Handle(p, tag, data, isStart, isEnd) ==
    Store(Boundary(p, isStart, isEnd), tag, data)

-----------------------------------------------------------------------------
(* FTParser: the field-tagged text backend.                                *)

start_tag == "ST"

end_tag == "ED"

\* FTParser.is_start / is_end / is_eof
FTIsStart(tag) == tag = start_tag

FTIsEnd(tag) == tag = end_tag

FTIsEof(p) == p.at_eof

Upper == {"S", "T", "E", "D", "A", "U", "I", "B", "P", "Y", "C", "J"}

Lower == {"a", "b", "x"}

\* \w of the regular expression; everything else is \W.
WordChar == Upper \cup Lower \cup Digits \cup {"_"}

\* re.match('([A-Z]{2}|[C][1])\W(.*)', line) is not None
Matches(line) ==
    /\ Len(line) >= 3
    /\ \/ line[1] \in Upper /\ line[2] \in Upper
       \/ line[1] = "C" /\ line[2] = "1"
    /\ line[3] \notin WordChar

\* Group 1 as a string.
TagName(a, b) ==
    CASE a = "S" /\ b = "T" -> "ST"
      [] a = "E" /\ b = "D" -> "ED"
      [] a = "A" /\ b = "U" -> "AU"
      [] a = "T" /\ b = "I" -> "TI"
      [] a = "P" /\ b = "Y" -> "PY"
      [] a = "C" /\ b = "1" -> "C1"
      [] OTHER -> "??"

\* Group 2: (.*) stops before the first line break.
RECURSIVE UpToNewline(_)
UpToNewline(s) ==
    IF s = <<>> \/ Head(s) = "\n" THEN <<>>
    ELSE <<Head(s)>> \o UpToNewline(Tail(s))

Group2(line) == UpToNewline(SubSeq(line, 4, Len(line)))

\* The lines a file is made of.  Each ends with its line break.
BlankLine == <<"\n">>

Lines == {
    <<"S", "T", "\n">>,
    <<"S", "T", " ", "J", "\n">>,
    <<"E", "D", "\n">>,
    <<"E", "D", " ", "x", "\n">>,
    <<"A", "U", " ", "a", "\n">>,
    <<"A", "U", "\n">>,
    <<" ", "b", "\n">>,
    <<"T", "I", " ", "a", "\n">>,
    <<"T", "I", " ", "0", "\n">>,
    <<"P", "Y", " ", "1", "\n">> }

\* readline() at the end of the file.
EOF == <<>>

\* Lines 224-227: the first line read that is not blank.
RECURSIVE SkipBlank(_)
SkipBlank(lines) ==
    IF Head(lines) = BlankLine THEN SkipBlank(Tail(lines)) ELSE Head(lines)

\* The blank lines that may precede a line: none, or a run of them (one
\* stands for any number, all are skipped alike).
BlankRuns == { <<>>, <<BlankLine>> }

\* FTNext with a line that does not match the pattern returned without a
\* tag instead of under last_tag.
FTNextNoInherit(p, lines) ==
    LET line == SkipBlank(lines) IN
    IF line = EOF
    THEN [p |-> [p EXCEPT !.at_eof = TRUE, !.line = line],
          tag |-> NoTag, data |-> PyNone]
    ELSE IF Matches(line)
    THEN [p |-> [p EXCEPT !.current_tag = TagName(line[1], line[2]), !.line = line],
          tag |-> TagName(line[1], line[2]), data |-> Cast(Group2(line))]
    ELSE [p |-> [p EXCEPT !.current_tag = NoTag, !.line = line],
          tag |-> NoTag, data |-> Cast(Strip(line))]

\* FTParser.next on what it reads: the parser afterwards, and the
\* (tag, data) pair returned.
FTNext(p, lines) ==
    LET line == SkipBlank(lines) IN
    IF line = EOF
    THEN [p |-> [p EXCEPT !.at_eof = TRUE, !.line = line],
          tag |-> NoTag, data |-> PyNone]
    ELSE IF Matches(line)
    THEN [p |-> [p EXCEPT !.current_tag = TagName(line[1], line[2]), !.line = line],
          tag |-> TagName(line[1], line[2]), data |-> Cast(Group2(line))]
    ELSE [p |-> [p EXCEPT !.current_tag = p.last_tag, !.line = line],
          tag |-> p.last_tag, data |-> Cast(Strip(line))]

\* Whether a line of the input is an occurrence of the start tag.
IsStartLine(line) ==
    line # EOF /\ Matches(line) /\ TagName(line[1], line[2]) = start_tag

-----------------------------------------------------------------------------
(* Bookkeeping of what happened to each created Entry (not program state). *)

NoLog == [f \in {} |-> <<>>]

NoHooks == [f \in Hooked |-> 0]

\* handle() was given value d for field f of the k-th Entry.
Logged(lg, k, f, d) ==
    [lg EXCEPT ![k] = [x \in (DOMAIN lg[k]) \cup {f} |->
        IF x = f THEN (IF f \in DOMAIN lg[k] THEN lg[k][f] ELSE <<>>) \o <<d>>
        ELSE lg[k][x]]]

\* postprocess_entry ran on parser p: one more invocation of each hook it calls.
Postprocessed(hk, p) ==
    IF p.data = <<>> THEN hk
    ELSE [hk EXCEPT ![Len(p.data)] =
            [f \in Hooked |-> IF f \in PostprocessFields(p) THEN @[f] + 1 ELSE @[f]]]

\* postprocess_entry ran on parser p: one more run on its last Entry.
Finalized(fz, p) ==
    IF p.data = <<>> THEN fz ELSE [fz EXCEPT ![Len(p.data)] = @ + 1]

\* A pair carries a value: the tag is set and the data is neither None nor ''.
CarriesValue(tag, data) == tag # NoTag /\ ~NoneOrEmpty(data)

\* The log after handle(tag, data) on parser p (after its boundary part):
\* the value handed to the merge, when the pair carries one, is not dropped
\* by parse_only and its handler returns.
LogHandle(lg, p, tag, data) ==
    IF CarriesValue(tag, data) /\ ~Filtered(p, tag) /\ GetHandler(p, tag) # "raise"
    THEN Logged(lg, Len(p.data), Rename(p, tag),
                ApplyHandler(GetHandler(p, tag), Normalize(data)))
    ELSE lg

-----------------------------------------------------------------------------
(* Construction.                                                           *)

\* The twin instance in the state of parser p: the same object state, with
\* the field order of the twin's own process.
Twin(p, q) == [p EXCEPT !.field_order = q.field_order]

\* An FTParser subclass is being instantiated on a path: BaseParser.__init__
\* is about to call open().
FTConstructed(registries, concats, handlers) ==
    /\ backend = "FT"
    /\ \E path \in Paths, tags \in registries, concat \in concats, handler \in handlers :
         /\ self = NewParser(path, tags, concat, handler)
         /\ full = self
    /\ pc = "open"
    /\ pcFull = "open"
    /\ nread = 0
    /\ nstart = 0
    /\ log = <<>>
    /\ hooks = <<>>
    /\ finalized = <<>>

InitFT == FTConstructed(Registries, ConcatChoices, HandlerKinds)

\* The subclasses the termination properties are checked for: the base
\* registry, with or without concatenation fields, and a handler that is
\* absent or raises.
InitFTLive == FTConstructed({[t \in {} |-> "title"]}, ConcatChoices, {"absent", "raise"})

\* The subclasses the single-step properties of handle() are checked for:
\* the base registry, with or without concatenation fields, and a handler
\* that is absent, returns a list or returns None.
InitFTValues ==
    FTConstructed({[t \in {} |-> "title"]}, ConcatChoices, {"absent", "list", "none"})

\* What one call of next() can read: some blank lines, then a content line
\* while the file has any left, or '' at its end and ever after.
Readable(p) ==
    LET ends == IF p.at_eof \/ nread >= MaxLines THEN {EOF} ELSE Lines \cup {EOF}
    IN  {blanks \o <<line>> : blanks \in (IF p.at_eof THEN {<<>>} ELSE BlankRuns),
                                line \in ends}

\* Content lines among what was read.
Consumed(lines) == IF SkipBlank(lines) = EOF THEN 0 ELSE 1

\* FTOpen without the test of line 204: a missing path is opened like a
\* file.
FTOpenUnchecked(p) ==
    [p |-> SetAttr(SetAttr(p, "buffer", "open"), "line", EOF), pc |-> "start"]

\* FTParser.open: IOError for a path that does not exist, else the decoded
\* file is opened and kept as self.buffer.  `line` is the local variable of
\* next(): the line it last read, nothing so far.
FTOpen(p) ==
    IF ~Exists(p.path) THEN [p |-> p, pc |-> "IOError"]
    ELSE [p |-> SetAttr(SetAttr(p, "buffer", "open"), "line", EOF), pc |-> "start"]

\* BaseParser.__init__, line 53.
FTOpenCall ==
    /\ backend = "FT" /\ pc = "open"
    /\ self' = FTOpen(self).p
    /\ pc' = FTOpen(self).pc
    /\ full' = Twin(self', full)
    /\ pcFull' = pc'
    /\ UNCHANGED <<backend, nread, nstart, log, hooks, finalized>>

\* FTParser.__del__: the parser object is discarded between two calls.
FTDel ==
    /\ backend = "FT" /\ pc \in {"ready", "done", "raised"}
    /\ self' = IF HasAttr(self, "buffer") THEN [self EXCEPT !.buffer = "closed"] ELSE self
    /\ full' = IF HasAttr(full, "buffer") THEN [full EXCEPT !.buffer = "closed"] ELSE full
    /\ pc' = "deleted"
    /\ pcFull' = "deleted"
    /\ UNCHANGED <<backend, nread, nstart, log, hooks, finalized>>

-----------------------------------------------------------------------------
(* IterParser.start, one iteration of its loop per step: read while the    *)
(* current tag is not the start tag, then create the first Entry.          *)

FTStart ==
    /\ backend = "FT" /\ pc = "start"
    /\ ~FTIsStart(self.current_tag)
    /\ \E lines \in Readable(self) :
         LET r == FTNext(self, lines) IN
         /\ nread' = nread + Consumed(lines)
         /\ nstart' = nstart + (IF IsStartLine(SkipBlank(lines)) THEN 1 ELSE 0)
         /\ IF FTIsStart(r.p.current_tag)
            THEN /\ self' = NewEntry(r.p)
                 /\ pc' = "ready"
                 /\ log' = Append(log, NoLog)
                 /\ hooks' = Append(hooks, NoHooks)
                 /\ finalized' = Append(finalized, 0)
            ELSE /\ self' = r.p
                 /\ pc' = pc
                 /\ UNCHANGED <<log, hooks, finalized>>
         /\ full' = Twin(self', full)
         /\ pcFull' = pc'
    /\ UNCHANGED backend

-----------------------------------------------------------------------------
(* IterParser.parse                                                        *)

\* tag_lookup = {v: k for k, v in self.tags.items()}: one raw tag per field
\* name; which one, when several rename to the same field, is the order of
\* the dict.
TagLookups(tags) ==
    LET names == {tags[t] : t \in DOMAIN tags} IN
    {lk \in [names -> DOMAIN tags] : \A n \in names : tags[lk[n]] = n}

\* Lines 103-107.
IterParseOnly(lookup, requested) == {lookup[f] : f \in requested \cap DOMAIN lookup}

\* What a caller may pass as parse_only.
Requests == { {}, {"title"}, {"title", "PY"} }

FTParseCall ==
    /\ backend = "FT" /\ pc = "ready"
    /\ \E requested \in Requests : \E lookup \in TagLookups(self.tags) :
         self' = IF requested # {}
                 THEN [self EXCEPT !.has_parse_only = TRUE,
                                   !.parse_only = IterParseOnly(lookup, requested),
                                   !.requested = requested]
                 ELSE self
    /\ pc' = "parse"
    /\ pcFull' = "parse"
    /\ UNCHANGED <<backend, full, nread, nstart, log, hooks, finalized>>

\* FTIterate without line 112: the loop breaks at the end of the input
\* without running postprocess_entry.
FTIterateNoFinal(p, lines) ==
    LET r == FTNext(p, lines) IN
    IF FTIsEof(r.p) THEN [p |-> r.p, pc |-> "done", final |-> FALSE]
    ELSE LET h == Handle(r.p, r.tag, r.data, FTIsStart(r.tag), FTIsEnd(r.tag)) IN
         IF h.raised THEN [p |-> h.p, pc |-> "raised", final |-> FALSE]
         ELSE [p |-> [h.p EXCEPT !.last_tag = r.tag], pc |-> "parse", final |-> FALSE]

\* One iteration of the main loop on parser p with the line it reads:
\* the parser afterwards, how the iteration ended, and whether it ran the
\* final postprocess_entry of line 112.
FTIterate(p, lines) ==
    LET r == FTNext(p, lines) IN
    IF FTIsEof(r.p) THEN [p |-> PostprocessEntry(r.p), pc |-> "done", final |-> TRUE]
    ELSE LET h == Handle(r.p, r.tag, r.data, FTIsStart(r.tag), FTIsEnd(r.tag)) IN
         IF h.raised THEN [p |-> h.p, pc |-> "raised", final |-> FALSE]
         ELSE [p |-> [h.p EXCEPT !.last_tag = r.tag], pc |-> "parse", final |-> FALSE]

FTParseStep ==
    /\ backend = "FT" /\ pc = "parse"
    /\ \E lines \in Readable(self) :
         LET r == FTNext(self, lines)
             b == Boundary(r.p, FTIsStart(r.tag), FTIsEnd(r.tag))
             it == FTIterate(self, lines)
             itFull == FTIterate(full, lines)
         IN
         /\ nread' = nread + Consumed(lines)
         /\ nstart' = nstart + (IF IsStartLine(SkipBlank(lines)) THEN 1 ELSE 0)
         /\ self' = it.p
         /\ pc' = it.pc
         /\ IF pcFull = "parse"
            THEN full' = itFull.p /\ pcFull' = itFull.pc
            ELSE UNCHANGED <<full, pcFull>>
         /\ hooks' =
              LET hk == IF it.final \/ (~FTIsEof(r.p) /\ FTIsEnd(r.tag))
                        THEN Postprocessed(hooks, self) ELSE hooks
              IN  IF ~FTIsEof(r.p) /\ FTIsStart(r.tag) THEN Append(hk, NoHooks) ELSE hk
         /\ finalized' =
              LET fz == IF it.final \/ (~FTIsEof(r.p) /\ FTIsEnd(r.tag))
                        THEN Finalized(finalized, self) ELSE finalized
              IN  IF ~FTIsEof(r.p) /\ FTIsStart(r.tag) THEN Append(fz, 0) ELSE fz
         /\ log' =
              IF FTIsEof(r.p) THEN log
              ELSE LogHandle(IF FTIsStart(r.tag) THEN Append(log, NoLog) ELSE log,
                             b, r.tag, r.data)
    /\ UNCHANGED backend

NextFT ==
    \/ FTOpenCall
    \/ FTStart
    \/ FTParseCall
    \/ FTParseStep
    \/ FTDel

SpecFT == InitFT /\ [][NextFT]_vars

SpecFTValues == InitFTValues /\ [][NextFT]_vars

\* Python runs the constructor and parse() to the end: a step that can be
\* taken is taken.
FairSpecFT == InitFTLive /\ [][NextFT]_vars /\ WF_vars(NextFT)

\* A subclass whose hooks derive a field, instantiated twice on the same
\* file, each time in an interpreter process of its own.
InitFTHooks ==
    /\ backend = "FT"
    /\ \E order \in FieldOrders, orderTwin \in FieldOrders :
         /\ self = [NewParser("file", [t \in {"TI"} |-> "title"], {}, "absent")
                        EXCEPT !.hook_kind = "derive", !.field_order = order]
         /\ full = [self EXCEPT !.field_order = orderTwin]
    /\ pc = "open"
    /\ pcFull = "open"
    /\ nread = 0
    /\ nstart = 0
    /\ log = <<>>
    /\ hooks = <<>>
    /\ finalized = <<>>

SpecFTHooks == InitFTHooks /\ [][NextFT]_vars

-----------------------------------------------------------------------------
(* The parser after parse() has returned self.data: the caller holds the   *)
(* list, the parser object is still alive and its methods can be called.   *)

\* A second call of parse(): the file is at its end, so next() reads '',
\* line 112 runs postprocess_entry on the last Entry and the same list is
\* returned.
FTParseAgain ==
    /\ backend = "FT" /\ pc = "done"
    /\ finalized[Len(finalized)] < MaxRuns
    /\ LET it == FTIterate(self, <<EOF>>) IN
         /\ self' = it.p
         /\ pc' = it.pc
    /\ hooks' = Postprocessed(hooks, self)
    /\ finalized' = Finalized(finalized, self)
    /\ UNCHANGED <<backend, pcFull, full, nread, nstart, log>>

\* A further call of handle() with a field line's pair.
FTHandleAgain ==
    /\ backend = "FT" /\ pc = "done"
    /\ LET e == self.data[Len(self.data)] IN
         IF HasAttr(e, "AU") /\ e["AU"].t = "list"
         THEN Len(e["AU"].l) < MaxRuns ELSE TRUE
    /\ LET h == Handle(self, "AU", Str(<<"a">>), FALSE, FALSE) IN
         /\ self' = h.p
         /\ pc' = IF h.raised THEN "raised" ELSE pc
    /\ log' = LogHandle(log, self, "AU", Str(<<"a">>))
    /\ UNCHANGED <<backend, pcFull, full, nread, nstart, hooks, finalized>>

NextFTReuse ==
    \/ NextFT
    \/ FTParseAgain
    \/ FTHandleAgain

SpecFTReuse == InitFTHooks /\ [][NextFTReuse]_vars

\* parse() called again on a parser of a class without deriving hooks.
NextFTAgain ==
    \/ NextFT
    \/ FTParseAgain

SpecFTAgain == InitFTValues /\ [][NextFTAgain]_vars

-----------------------------------------------------------------------------
(* The text backend on one tagged line with an arbitrary value text: a     *)
(* parser that has read the start-tag line reads the line 'PY <text>'.     *)

RawChars == {"0", "1", ".", "a", " "}

\* The value texts: every string of at most MaxRaw characters.
RawValues == UNION { [1..n -> RawChars] : n \in 0..MaxRaw }

\* The line 'PY <text>' with its line break.
ValueLine(raw) == <<"P", "Y", " ">> \o raw \o <<"\n">>

\* A parser of the base class, constructed on a file whose first line is
\* the start-tag line, with parse() called.
InitCoerce ==
    /\ backend = "FT"
    /\ self = [NewEntry(FTOpen(NewParser("file", [t \in {} |-> "title"], {}, "absent")).p)
                   EXCEPT !.current_tag = start_tag,
                          !.line = <<"S", "T", "\n">>]
    /\ full = self
    /\ pc = "parse"
    /\ pcFull = "parse"
    /\ nread = 1
    /\ nstart = 1
    /\ log = <<NoLog>>
    /\ hooks = <<NoHooks>>
    /\ finalized = <<0>>

\* One iteration of the main loop, on the value line.
CoerceLine ==
    /\ backend = "FT" /\ pc = "parse" /\ nread = 1
    /\ \E raw \in RawValues :
         LET r == FTNext(self, <<ValueLine(raw)>>)
             it == FTIterate(self, <<ValueLine(raw)>>)
         IN  /\ self' = it.p
             /\ pc' = it.pc
             /\ log' = LogHandle(log, r.p, r.tag, r.data)
    /\ full' = self'
    /\ pcFull' = pc'
    /\ nread' = nread + 1
    /\ UNCHANGED <<backend, nstart, hooks, finalized>>

SpecCoerce == InitCoerce /\ [][CoerceLine]_vars

-----------------------------------------------------------------------------
(* XMLParser: the incremental XML backend.  ET.iterparse hands over one    *)
(* element at a time as it closes, children before their parent, so the    *)
(* root element comes last.                                                *)

entry_element == "article"

\* XMLParser.is_start and is_end are the same test.
XMLIsStart(tag) == tag = entry_element

XMLIsEnd(tag) == tag = entry_element

\* Closing elements below the root: tag and text (None when it has none).
Events == {
    [tag |-> "article", text |-> PyNone],
    [tag |-> "article", text |-> Str(<<"x">>)],
    [tag |-> "TI", text |-> Str(<<"a">>)],
    [tag |-> "AU", text |-> Str(<<"a">>)],
    [tag |-> "AU", text |-> Str(<<" ", "b", "\n">>)],
    [tag |-> "PY", text |-> Str(<<"\n", " ">>)] }

\* The root element closing.
RootEvents == {
    [tag |-> "root", text |-> PyNone],
    [tag |-> "root", text |-> Str(<<"\n">>)],
    [tag |-> "root", text |-> Str(<<"x">>)] }

\* XMLParser.next, lines 287-289: `if data: data = data.strip()`
XMLData(ev) == IF Truthy(ev.text) THEN Str(Strip(ev.text.s)) ELSE ev.text

\* XMLParser.next on one element: the parser afterwards and whether an
\* exception left it.
XMLNext(p, ev) ==
    LET h == Handle(p, ev.tag, XMLData(ev), XMLIsStart(ev.tag), XMLIsEnd(ev.tag)) IN
    IF h.raised THEN h ELSE [p |-> [h.p EXCEPT !.last_tag = ev.tag], raised |-> FALSE]

\* Lines 310-311: drop the last Entry when it has no attribute.
DropEmptyTail(p) ==
    IF p.data[Len(p.data)] = EmptyEntry
    THEN [p EXCEPT !.data = SubSeq(p.data, 1, Len(p.data) - 1)]
    ELSE p

\* An XMLParser subclass is being instantiated on a path.
InitXML ==
    /\ backend = "XML"
    /\ \E path \in Paths, tags \in Registries, concat \in ConcatChoices,
          handler \in HandlerKinds :
         /\ self = NewParser(path, tags, concat, handler)
         /\ full = self
    /\ pc = "open"
    /\ pcFull = "open"
    /\ nread = 0
    /\ nstart = 0
    /\ log = <<>>
    /\ hooks = <<>>
    /\ finalized = <<>>

\* XMLParser.open: the builtin open() raises IOError for a path that does
\* not exist, else the file is kept as self.f.
XMLOpen(p) ==
    IF ~Exists(p.path) THEN [p |-> p, pc |-> "IOError"]
    ELSE [p |-> SetAttr(p, "f", "open"), pc |-> "start"]

\* The constructor: open(), then XMLParser.start, whose new_entry on a
\* parser with no Entry and no field seen runs no hook and appends the
\* first Entry.
XMLOpenCall ==
    /\ backend = "XML" /\ pc = "open"
    /\ IF XMLOpen(self).pc = "IOError"
       THEN /\ pc' = "IOError"
            /\ UNCHANGED <<self, log, hooks, finalized>>
       ELSE /\ pc' = "ready"
            /\ self' = NewEntry(XMLOpen(self).p)
            /\ log' = <<NoLog>>
            /\ hooks' = <<NoHooks>>
            /\ finalized' = <<0>>
    /\ full' = self'
    /\ pcFull' = pc'
    /\ UNCHANGED <<backend, nread, nstart>>

\* XMLParser.__del__: the parser object is discarded between two calls.
XMLDel ==
    /\ backend = "XML" /\ pc \in {"ready", "done", "raised"}
    /\ self' = IF HasAttr(self, "f") THEN [self EXCEPT !.f = "closed"] ELSE self
    /\ full' = IF HasAttr(full, "f") THEN [full EXCEPT !.f = "closed"] ELSE full
    /\ pc' = "deleted"
    /\ pcFull' = "deleted"
    /\ UNCHANGED <<backend, nread, nstart, log, hooks, finalized>>

\* Lines 302-306.
XMLParseOnly(lookup, requested) == IterParseOnly(lookup, requested) \cup requested

XMLParseCall ==
    /\ backend = "XML" /\ pc = "ready"
    /\ \E requested \in Requests : \E lookup \in TagLookups(self.tags) :
         self' = IF requested # {}
                 THEN [self EXCEPT !.has_parse_only = TRUE,
                                   !.parse_only = XMLParseOnly(lookup, requested),
                                   !.requested = requested]
                 ELSE self
    /\ pc' = "parse"
    /\ pcFull' = "parse"
    /\ UNCHANGED <<backend, full, nread, nstart, log, hooks, finalized>>

\* One element through parser p: _fast_iter's call of next, and after the
\* root element the end of parse().
XMLIterate(p, ev) ==
    LET r == XMLNext(p, ev) IN
    IF r.raised THEN [p |-> r.p, pc |-> "raised"]
    ELSE IF ev \in RootEvents THEN [p |-> DropEmptyTail(r.p), pc |-> "done"]
    ELSE [p |-> r.p, pc |-> "parse"]

\* The hook invocations of handle's boundary part in the XML backend:
\* postprocess_entry for the end, and once more inside XMLParser.new_entry.
XMLBoundaryHooks(hk, p, tag) ==
    IF XMLIsEnd(tag)
    THEN Append(Postprocessed(Postprocessed(hk, p), p), NoHooks)
    ELSE hk

XMLStep ==
    /\ backend = "XML" /\ pc = "parse"
    /\ \E ev \in (IF nread < MaxEvents THEN Events ELSE {}) \cup RootEvents :
         LET b == Boundary(self, XMLIsStart(ev.tag), XMLIsEnd(ev.tag))
             it == XMLIterate(self, ev)
             itFull == XMLIterate(full, ev)
         IN
         /\ nread' = nread + 1
         /\ nstart' = nstart + (IF XMLIsStart(ev.tag) THEN 1 ELSE 0)
         /\ self' = it.p
         /\ pc' = it.pc
         /\ IF pcFull = "parse"
            THEN full' = itFull.p /\ pcFull' = itFull.pc
            ELSE UNCHANGED <<full, pcFull>>
         /\ hooks' = XMLBoundaryHooks(hooks, self, ev.tag)
         /\ finalized' = IF XMLIsEnd(ev.tag)
                         THEN Append(Finalized(Finalized(finalized, self), self), 0)
                         ELSE finalized
         /\ log' = LogHandle(IF XMLIsStart(ev.tag) THEN Append(log, NoLog) ELSE log,
                             b, ev.tag, XMLData(ev))
    /\ UNCHANGED backend

NextXML ==
    \/ XMLOpenCall
    \/ XMLParseCall
    \/ XMLStep
    \/ XMLDel

SpecXML == InitXML /\ [][NextXML]_vars

-----------------------------------------------------------------------------
(* RDFParser: the triple backend.  The graph is loaded whole by open(); a  *)
(* subclass supplies entry_class and tags (the class itself defines        *)
(* neither and cannot parse without them), entry_elements and              *)
(* meta_elements.                                                          *)

\* Predicates of the graph.  rdf:type selects the subjects.
RdfType == "rdf:type"

\* A triple of one subject: predicate and object.  Objects are rdflib terms,
\* which are strings.
Triple(pred, obj) == [p |-> pred, o |-> obj]

\* The triples a subject of the graph may have.
TripleSets == {
    {Triple(RdfType, Str(<<"D">>)), Triple("dc:title", Str(<<"a">>)),
     Triple("dc:creator", Str(<<"a">>)), Triple("dc:date", Str(<<"1">>)),
     Triple("note", Str(<<"x">>))},
    {Triple(RdfType, Str(<<"D">>)), Triple("dc:title", Str(<<"a">>)),
     Triple("dc:title", Str(<<"b">>))},
    {Triple(RdfType, Str(<<"D">>)), Triple(RdfType, Str(<<"A">>)),
     Triple("dc:title", Str(<<>>)), Triple("dc:creator", Str(<<"a">>))},
    {Triple(RdfType, Str(<<"D">>))},
    {Triple(RdfType, Str(<<"A">>)), Triple("dc:date", Str(<<"1">>))} }

Subjects == {"s1", "s2"}

\* The graphs: one or two subjects, each with one of the triple sets.
Graphs == UNION { [ss -> TripleSets] : ss \in {{"s1"}, Subjects} }

\* entry_elements: the class's default, or two types.
EntryElementChoices == { <<Str(<<"D">>)>>, <<Str(<<"D">>), Str(<<"A">>)>> }

\* meta_elements: (field, predicate) pairs.  The class's default is empty.
MetaChoices == { <<>>, << <<"TI", "dc:title">>, <<"AU", "dc:creator">> >> }

\* meta_fields, meta_refs = zip(*self.meta_elements)
MetaRefs(p) == {p.meta_elements[i][2] : i \in 1..Len(p.meta_elements)}

\* meta_fields[meta_refs.index(pred)]: the field of the first pair with pred.
MetaField(p, pred) ==
    LET i == CHOOSE i \in 1..Len(p.meta_elements) :
                 /\ p.meta_elements[i][2] = pred
                 /\ \A j \in 1..(i - 1) : p.meta_elements[j][2] # pred
    IN  p.meta_elements[i][1]

\* The result rows of one query of open(): the subjects of the given type,
\* in any order.
RECURSIVE Orders(_)
Orders(ss) ==
    IF ss = {} THEN { <<>> }
    ELSE UNION { { <<x>> \o rest : rest \in Orders(ss \ {x}) } : x \in ss }

OfType(graph, type) == {x \in DOMAIN graph : Triple(RdfType, type) \in graph[x]}

\* RDFParser.open, lines 327-331: the queue is the concatenation of the
\* queries' results, one query per entry element.
RECURSIVE Queues(_, _)
Queues(graph, elements) ==
    IF elements = <<>> THEN { <<>> }
    ELSE { first \o rest : first \in Orders(OfType(graph, Head(elements))),
                           rest \in Queues(graph, Tail(elements)) }

\* Lines 366-375: the value the field holds after `data` is merged into it.
RDFMergeValue(e, f, data, concat) ==
    IF HasAttr(e, f)
    THEN IF f \in concat
         THEN IF e[f].t = "str" /\ data.t = "str"
              THEN Str(e[f].s \o <<" ">> \o data.s)
              ELSE TypeError
         ELSE IF e[f].t = "list" THEN PyList(Append(e[f].l, data))
         ELSE IF ~NoneOrEmpty(e[f]) THEN PyList(<<e[f], data>>)
         ELSE e[f]
    ELSE data

\* RDFParser.handle.  Returns the parser and whether an exception left it.
RDFHandle(p, tag, data) ==
    LET h == GetHandler(p, tag)
        d == IF h = "absent" THEN data ELSE ApplyHandler(h, data)
        f == Rename(p, tag)
        v == IF h = "raise" THEN TypeError
             ELSE RDFMergeValue(p.data[Len(p.data)], f, d, p.concat_fields)
    IN  IF h = "raise" THEN [p |-> p, raised |-> TRUE]
        ELSE IF d.t = "none" THEN [p |-> p, raised |-> FALSE]
        ELSE IF v.t = "TypeError" THEN [p |-> p, raised |-> TRUE]
        ELSE [p |-> [p EXCEPT !.data = SetLast(p.data, f, v),
                              !.fields = p.fields \cup {f}],
              raised |-> FALSE]

\* The log after RDFParser.handle(tag, data): the value handed to the merge.
RDFLogHandle(lg, p, tag, data) ==
    LET h == GetHandler(p, tag)
        d == IF h = "absent" THEN data ELSE ApplyHandler(h, data)
    IN  IF h # "raise" /\ d.t # "none"
        THEN Logged(lg, Len(p.data), Rename(p, tag), d)
        ELSE lg

\* BaseParser.__init__ and RDFParser.open on a graph.
InitRDF ==
    /\ backend = "RDF"
    /\ \E tags \in Registries, concat \in ConcatChoices, handler \in HandlerKinds,
          meta \in MetaChoices, elements \in EntryElementChoices, graph \in Graphs :
         \E queue \in Queues(graph, elements) :
            /\ self = [ data |-> <<>>, fields |-> {}, graph |-> graph,
                        entry_elements |-> elements,
                        entries |-> queue, entry |-> NoTag, pending |-> {},
                        tags |-> tags, concat_fields |-> concat,
                        handler |-> handler, meta_elements |-> meta,
                        hook_kind |-> "observe", field_order |-> DefaultOrder ]
            /\ full = self
    /\ pc = "ready"
    /\ pcFull = "ready"
    /\ nread = 0
    /\ nstart = 0
    /\ log = <<>>
    /\ hooks = <<>>
    /\ finalized = <<>>

\* RDFParser.parse, line 338: unpacking the zip of an empty meta_elements
\* raises ValueError.
RDFParseCall ==
    /\ backend = "RDF" /\ pc = "ready"
    /\ pc' = IF self.meta_elements = <<>> THEN "raised" ELSE "parse"
    /\ pcFull' = pc'
    /\ UNCHANGED <<backend, self, full, nread, nstart, log, hooks, finalized>>

\* Lines 341-345: take the next subject off the queue, or leave the loop;
\* create its Entry and start the scan of its triples.
RDFNextEntry ==
    /\ backend = "RDF" /\ pc = "parse" /\ self.entry = NoTag
    /\ IF self.entries = <<>>
       THEN /\ pc' = "done"
            /\ UNCHANGED <<self, nstart, log, hooks, finalized>>
       ELSE /\ pc' = pc
            /\ self' = [NewEntry(self) EXCEPT
                            !.entries = Tail(self.entries),
                            !.entry = Head(self.entries),
                            !.pending = self.graph[Head(self.entries)]]
            /\ nstart' = nstart + 1
            /\ log' = Append(log, NoLog)
            /\ hooks' = Append(hooks, NoHooks)
            /\ finalized' = Append(finalized, 0)
    /\ full' = self'
    /\ pcFull' = pc'
    /\ UNCHANGED <<backend, nread>>

\* TripleTag as rename-and-pass-through: an unmapped predicate is handled
\* under its own name.
TripleTagPassThrough(p, pred) ==
    IF pred \in MetaRefs(p) THEN MetaField(p, pred) ELSE pred

\* Lines 348-349: the tag a triple is handled under, or none when its
\* predicate is not a metadata reference.
TripleTag(p, pred) ==
    IF pred \in MetaRefs(p) THEN MetaField(p, pred) ELSE NoTag

\* Lines 347-350: one triple of the subject, in the graph's iteration order
\* (any order); handled when its predicate is a metadata reference.
RDFTriple ==
    /\ backend = "RDF" /\ pc = "parse" /\ self.entry # NoTag
    /\ \E t \in self.pending :
         LET q == [self EXCEPT !.pending = self.pending \ {t}]
             tag == TripleTag(self, t.p)
             h == RDFHandle(q, tag, t.o)
         IN  /\ self' = IF tag # NoTag THEN h.p ELSE q
             /\ pc' = IF tag # NoTag /\ h.raised THEN "raised" ELSE pc
             /\ log' = IF tag # NoTag THEN RDFLogHandle(log, q, tag, t.o) ELSE log
    /\ nread' = nread + 1
    /\ full' = self'
    /\ pcFull' = pc'
    /\ UNCHANGED <<backend, nstart, hooks, finalized>>

\* Line 351: every triple of the subject was scanned.
RDFPostprocess ==
    /\ backend = "RDF" /\ pc = "parse" /\ self.entry # NoTag
    /\ self.pending = {}
    /\ self' = [PostprocessEntry(self) EXCEPT !.entry = NoTag]
    /\ hooks' = Postprocessed(hooks, self)
    /\ finalized' = Finalized(finalized, self)
    /\ full' = self'
    /\ UNCHANGED <<backend, pc, pcFull, nread, nstart, log>>

NextRDF ==
    \/ RDFParseCall
    \/ RDFNextEntry
    \/ RDFTriple
    \/ RDFPostprocess

SpecRDF == InitRDF /\ [][NextRDF]_vars

-----------------------------------------------------------------------------
(* The two handle() methods side by side: an IterParser subclass (self)    *)
(* and an RDFParser subclass (full) with the same tags and concat_fields   *)
(* and no handle_<tag> method, each with one fresh Entry, are handed the   *)
(* same (tag, data) pairs.                                                 *)

PairTags == {"TI", "AU"}

\* The values of the pairs: None, '', and texts (one with a carriage
\* return).
PairValues == { PyNone, Str(<<>>), Str(<<"a">>), Str(<<"b">>), Str(<<"a", "\r">>) }

InitHandle ==
    /\ backend = "handle"
    /\ \E tags \in Registries, concat \in ConcatChoices :
         /\ self = NewEntry(NewParser("file", tags, concat, "absent"))
         /\ full = [ data |-> <<EmptyEntry>>, fields |-> {},
                     tags |-> tags, concat_fields |-> concat,
                     handler |-> "absent", meta_elements |-> <<>>,
                     hook_kind |-> "observe", field_order |-> DefaultOrder ]
    /\ pc = "parse"
    /\ pcFull = "parse"
    /\ nread = 0
    /\ nstart = 1
    /\ log = <<NoLog>>
    /\ hooks = <<NoHooks>>
    /\ finalized = <<0>>

\* self.handle(tag, data) on the IterParser (the tag is no boundary tag)
\* and on the RDFParser.
HandlePair ==
    /\ backend = "handle" /\ pc = "parse" /\ pcFull = "parse"
    /\ nread < MaxPairs
    /\ \E tag \in PairTags, data \in PairValues :
         LET a == Handle(self, tag, data, FALSE, FALSE)
             b == RDFHandle(full, tag, data)
         IN  /\ self' = a.p
             /\ pc' = IF a.raised THEN "raised" ELSE pc
             /\ full' = b.p
             /\ pcFull' = IF b.raised THEN "raised" ELSE pcFull
             /\ log' = LogHandle(log, self, tag, data)
    /\ nread' = nread + 1
    /\ UNCHANGED <<backend, nstart, hooks, finalized>>

SpecHandle == InitHandle /\ [][HandlePair]_vars

-----------------------------------------------------------------------------
(* readers.parse_wos: the older reader of Web of Science field-tagged      *)
(* files.  `self` holds the locals of one call; dictionaries are objects   *)
(* of `heap`, and wos_dict and the elements of wos_list refer to them by   *)
(* index (0: the name is not bound yet).                                   *)

\* s[a:b] and s[a:] of Python, for 0 <= a <= b.
Slice(s, a, b) == SubSeq(s, a + 1, IF b < Len(s) THEN b ELSE Len(s))

SliceFrom(s, a) == SubSeq(s, a + 1, Len(s))

paper_start_key == <<"P", "T">>

paper_end_key == <<"E", "R">>

\* The tags whose lines are joined with a newline (line 219).
multi_line_keys == { <<"A", "U">>, <<"A", "F">>, <<"C", "R">>, <<"C", "1">> }

list_keys == { <<"A", "U">>, <<"A", "F">>, <<"D", "E">>, <<"I", "D">>,
               <<"C", "R">>, <<"C", "1">> }

delims == [k \in list_keys |->
              IF k \in { <<"D", "E">>, <<"I", "D">> } THEN ";" ELSE "\n"]

int_keys == { <<"P", "Y">> }

\* ds.new_wos_dict(): a dictionary with the known field tags as keys, each
\* set to None.
new_wos_dict == [k \in { <<"A", "U">>, <<"C", "R">>, <<"P", "Y">> } |-> PyNone]

\* The first line of the file: with the three bytes of a byte-order mark
\* before the tag, or without them.
WosHeaders == { <<"#", "#", "#", "F", "N", " ", "x">>, <<"F", "N", " ", "x">> }

\* The lines after the first two.
WosLines == {
    <<"P", "T", " ", "J">>,
    <<"E", "R">>,
    <<"A", "U", " ", "a">>,
    <<" ", " ", " ", "b">>,
    <<" ", " ", " ">>,
    <<"T", "I", " ", "a">>,
    <<"P", "Y", " ", "1">>,
    <<>> }

\* str.split(delim)
RECURSIVE Split(_, _)
Split(s, delim) ==
    IF \A i \in 1..Len(s) : s[i] # delim THEN <<Str(s)>>
    ELSE LET i == CHOOSE i \in 1..Len(s) :
                      s[i] = delim /\ \A j \in 1..(i - 1) : s[j] # delim
         IN  <<Str(SubSeq(s, 1, i - 1))>> \o Split(SubSeq(s, i + 1, Len(s)), delim)

\* str.splitlines(): no element for the empty string after a last line
\* break.
RECURSIVE SplitLines(_)
SplitLines(s) ==
    IF s = <<>> THEN <<>>
    ELSE IF \A i \in 1..Len(s) : s[i] # "\n" THEN <<Str(s)>>
    ELSE LET i == CHOOSE i \in 1..Len(s) :
                      s[i] = "\n" /\ \A j \in 1..(i - 1) : s[j] # "\n"
         IN  <<Str(SubSeq(s, 1, i - 1))>> \o SplitLines(SubSeq(s, i + 1, Len(s)))

\* Lines 149-202: the call, the file read whole and the header test.
InitWos ==
    /\ backend = "WOS"
    /\ self = [ heap |-> <<>>, wos_dict |-> 0, wos_list |-> <<>>,
                last_field_tag |-> paper_start_key, line |-> <<>> ]
    /\ full = self
    /\ pc = "open"
    /\ pcFull = "open"
    /\ nread = 0
    /\ nstart = 0
    /\ log = <<>>
    /\ hooks = <<>>
    /\ finalized = <<>>

\* Lines 186-198: IOError for a path that cannot be read or an empty file,
\* DataError when characters 3 and 4 of the first line are not 'FN'.
WosOpen ==
    /\ backend = "WOS" /\ pc = "open"
    /\ \/ pc' = "IOError" /\ UNCHANGED self
       \/ \E first \in WosHeaders :
            /\ self' = [self EXCEPT !.line = first]
            /\ pc' = IF Slice(first, 3, 5) # <<"F", "N">> THEN "DataError" ELSE "parse"
    /\ UNCHANGED <<backend, pcFull, full, nread, nstart, log, hooks, finalized>>

\* Lines 203-231, one iteration of the loop over line_list[2:].  Returns
\* the locals afterwards and whether an exception left the loop: wos_dict
\* unbound at line 211, or at line 227 inside the except clause.
WosIterate(p, line) ==
    LET field_tag0 == Slice(line, 0, 2)
        p1 == IF field_tag0 = paper_start_key
              THEN [p EXCEPT !.heap = Append(p.heap, new_wos_dict),
                             !.wos_dict = Len(p.heap) + 1]
              ELSE p
        p2 == IF field_tag0 = paper_end_key /\ p1.wos_dict # 0
              THEN [p1 EXCEPT !.wos_list = Append(p1.wos_list, p1.wos_dict)]
              ELSE p1
        field_tag == IF field_tag0 = <<" ", " ">> THEN p.last_field_tag ELSE field_tag0
        sep == IF field_tag \in multi_line_keys THEN "\n" ELSE " "
        text == SliceFrom(line, 3)
    IN  IF p2.wos_dict = 0 THEN [p |-> [p EXCEPT !.line = line], raised |-> TRUE]
        ELSE LET d == p2.heap[p2.wos_dict]
                 v == IF HasAttr(d, field_tag) /\ d[field_tag].t = "str"
                      THEN Str(d[field_tag].s \o <<sep>> \o text)
                      ELSE Str(text)
             IN  [p |-> [p2 EXCEPT !.heap[p2.wos_dict] = SetAttr(d, field_tag, v),
                                   !.last_field_tag = field_tag,
                                   !.line = line],
                  raised |-> FALSE]

WosLine ==
    /\ backend = "WOS" /\ pc = "parse"
    /\ nread < MaxLines
    /\ \E line \in WosLines :
         LET it == WosIterate(self, line)
             field_tag == IF Slice(line, 0, 2) = <<" ", " ">>
                          THEN self.last_field_tag ELSE Slice(line, 0, 2)
         IN  /\ self' = it.p
             /\ pc' = IF it.raised THEN "raised" ELSE pc
             /\ nstart' = nstart + (IF Slice(line, 0, 2) = paper_start_key THEN 1 ELSE 0)
             /\ log' = IF it.raised THEN log
                       ELSE Logged(IF Slice(line, 0, 2) = paper_start_key
                                   THEN Append(log, NoLog) ELSE log,
                                   it.p.wos_dict, field_tag, Str(SliceFrom(line, 3)))
    /\ nread' = nread + 1
    /\ UNCHANGED <<backend, pcFull, full, hooks, finalized>>

\* Lines 244-262 on one dictionary: each list key that holds a string is
\* split; a missing key or a value without split() is passed over.
ToLists(d) ==
    [k \in DOMAIN d |->
        IF k \in list_keys /\ d[k].t = "str"
        THEN PyList(IF delims[k] = "\n" THEN SplitLines(d[k].s)
                    ELSE Split(d[k].s, delims[k]))
        ELSE d[k]]

\* Lines 265-276 on one dictionary: int() of each int key; None and a
\* missing key are passed over.
ToInts(d) ==
    [k \in DOMAIN d |->
        IF k \in int_keys /\ d[k].t = "str" THEN Cast(d[k].s) ELSE d[k]]

\* int() raises ValueError, which lines 270-276 do not catch.
IntFails(d) ==
    \E k \in int_keys \cap DOMAIN d : d[k].t = "str" /\ ~IsIntLiteral(d[k].s)

\* Lines 233-278: the end of line_list; the dictionaries of wos_list are
\* converted in place and wos_list is returned.
WosReturn ==
    /\ backend = "WOS" /\ pc = "parse"
    /\ LET listed == {self.wos_list[i] : i \in 1..Len(self.wos_list)}
           split == [i \in 1..Len(self.heap) |->
                        IF i \in listed THEN ToLists(self.heap[i]) ELSE self.heap[i]]
       IN  IF \E i \in listed : IntFails(split[i])
           THEN /\ pc' = "raised"
                /\ self' = [self EXCEPT !.heap = split]
           ELSE /\ pc' = "done"
                /\ self' = [self EXCEPT !.heap =
                              [i \in 1..Len(self.heap) |->
                                  IF i \in listed THEN ToInts(split[i]) ELSE split[i]]]
    /\ UNCHANGED <<backend, pcFull, full, nread, nstart, log, hooks, finalized>>

NextWos ==
    \/ WosOpen
    \/ WosLine
    \/ WosReturn

SpecWos == InitWos /\ [][NextWos]_vars

-----------------------------------------------------------------------------
(* Properties.                                                             *)

Entries == 1..Len(self.data)

RECURSIVE JoinText(_)
\* The texts of the values joined by single spaces, in order.
JoinText(vs) ==
    IF Len(vs) = 1 THEN Unicode(vs[1])
    ELSE Unicode(vs[1]) \o <<" ">> \o JoinText(Tail(vs))

\* What the merge policy of 4.2 leaves in a field that was given the values
\* vs in this order: one string for a concatenation field, else the scalar
\* itself for one value and the ordered list for more.
Merged(vs, isConcat) ==
    IF isConcat THEN Str(JoinText(vs))
    ELSE IF Len(vs) = 1 THEN vs[1]
    ELSE PyList(vs)

\* C1: merge monotonicity.  Every Entry holds, for every field handle() was
\* given values v1..vn for, all of them in input order: the list [v1..vn]
\* (the value itself when n = 1), or for a concatenation field the string
\* v1 ' ' v2 ' ' .. vn.  No value is lost or reordered.
C1_MergeMonotonic ==
    \A k \in Entries : \A f \in DOMAIN log[k] :
        /\ HasAttr(self.data[k], f)
        /\ self.data[k][f] = Merged(log[k][f], f \in self.concat_fields)

\* C2: boundary counting in the text backend.  When parse() has returned,
\* the number of Entries equals the number of start-tag lines of the input.
C2_BoundaryCount ==
    (backend = "FT" /\ pc = "done") => Len(self.data) = nstart

\* C3: selective-parse equivalence.  When parse(parse_only=S) and parse()
\* have both returned for the same input, they hold the same number of
\* Entries and every requested field F has the same value (or is absent)
\* in corresponding Entries.
C3_SelectiveEquivalent ==
    (pc = "done" /\ pcFull = "done") =>
        /\ Len(self.data) = Len(full.data)
        /\ \A k \in Entries : \A F \in self.requested :
             /\ HasAttr(self.data[k], F) <=> HasAttr(full.data[k], F)
             /\ HasAttr(self.data[k], F) => self.data[k][F] = full.data[k][F]

\* C4: single hook invocation.  When parse() has returned, every hook
\* postprocess_<field> was invoked exactly once on every returned Entry
\* that has the field.
C4_HookOnce ==
    pc = "done" =>
        \A k \in Entries : \A f \in Hooked :
            HasAttr(self.data[k], f) => hooks[k][f] = 1

\* C5: presence discipline.  In every state, a field an Entry has was merged
\* into it by handle() and its value is neither None nor the empty string.
C5_PresenceDiscipline ==
    \A k \in Entries : \A f \in DOMAIN self.data[k] :
        /\ f \in DOMAIN log[k]
        /\ ~NoneOrEmpty(self.data[k][f])

\* C6: constructing a text-backend parser terminates: start() eventually
\* returns, whatever the file holds.
C6_StartTerminates == <>(pc \notin {"open", "start"})

\* C7: parse termination.  Once parse() is in its main loop it eventually
\* leaves it (by returning at the end of the input, or by an exception),
\* and when it has returned, postprocess_entry has run on the last Entry.
C7_ParseTerminates ==
    /\ (pc = "parse") ~> (pc \in {"done", "raised"})
    /\ [](pc = "done" => finalized[Len(finalized)] >= 1)

\* C7 witness: parse() returned at the end of an input of several lines
\* with the last Entry post-processed.
C7_Witness ==
    /\ backend = "FT" /\ pc = "done" /\ nread >= 3
    /\ self.at_eof
    /\ DOMAIN self.data[Len(self.data)] # {}
    /\ finalized[Len(finalized)] >= 1

\* C8: boundary tags are never stored.  No Entry has a field named by the
\* start tag or the end tag (or the field they rename to).
C8_BoundaryNotStored ==
    \A k \in Entries :
        /\ ~HasAttr(self.data[k], Rename(self, start_tag))
        /\ ~HasAttr(self.data[k], Rename(self, end_tag))

\* The last entry element of the document was empty: nothing was handed to
\* the merge for the Entry it closes.
LastElementEmpty == nstart >= 1 /\ log[nstart] = NoLog

\* C9: malformed tail in the XML backend.  When parse() has returned for a
\* document whose last entry element is empty, it holds one Entry fewer
\* than the document has entry elements.
C9_EmptyTailDropped ==
    (backend = "XML" /\ pc = "done" /\ LastElementEmpty)
        => Len(self.data) = nstart - 1

\* C10: field-level errors never abort the parse.  With no concatenation
\* field configured (so that a value handler is the only thing that can
\* fail), no exception ever leaves handle().
C10_HandlerErrorRecovered ==
    self.concat_fields = {} => pc # "raised"

\* The fields the mapped triples of a subject give an Entry: for each triple
\* whose predicate is a metadata reference and whose handled value is not
\* None, the field of that predicate (renamed by the registry).
MappedFields(p, triples) ==
    { Rename(p, MetaField(p, t.p)) :
        t \in { u \in triples :
                  /\ u.p \in MetaRefs(p)
                  /\ ApplyHandler(GetHandler(p, MetaField(p, u.p)), u.o).t # "none" } }

HandleState(p) ==
    IF HasAttr(p, "buffer") THEN p.buffer
    ELSE IF HasAttr(p, "f") THEN p.f
    ELSE "none"

\* C12: resource release.  Once parse() has returned, or an exception has
\* left it, the file handle the parser opened at construction is closed.
C12_ReleasedAtEnd ==
    pc \in {"done", "raised"} => HandleState(self) = "closed"

\* C13: unreadable path.  A text-backend parser constructed on a path that
\* names no file gets no further than open(), which raises IOError; no
\* Entry is ever created.
C13_UnreadablePath ==
    (backend = "FT" /\ ~Exists(self.path)) =>
        /\ pc \in {"open", "IOError"}
        /\ self.data = <<>>
        /\ log = <<>>

\* C13 witness: the constructor has raised IOError on a missing path and
\* no Entry exists.
C13_Witness ==
    /\ backend = "FT" /\ ~Exists(self.path)
    /\ pc = "IOError" /\ self.data = <<>>

\* The header tag a Web of Science file must begin with (parse_wos).
header_tag == "FN"

\* C14: header check in the text backend.  When the first content line of
\* the file is read and does not carry the header tag, the parser is
\* rejected with an error and no Entry is produced.
C14_HeaderChecked ==
    [][(backend = "FT" /\ nread = 0 /\ nread' = 1 /\ self'.current_tag # header_tag)
          => (pc' = "raised" /\ self'.data = <<>>)]_vars

\* C15: concatenation-field invariant.  In every state, a field of an Entry
\* whose name is in concat_fields holds a string: never a list, never a
\* number or another non-string value.
C15_ConcatIsString ==
    \A k \in Entries : \A f \in DOMAIN self.data[k] :
        f \in self.concat_fields => self.data[k][f].t = "str"

\* C16: scalar-to-list is one-way.  In every step, a field of an Entry that
\* holds a list still holds a list afterwards, with the previous elements
\* as an unchanged prefix.
C16_ListOneWay ==
    [][\A k \in Entries : \A f \in DOMAIN self.data[k] :
          self.data[k][f].t = "list" =>
              /\ k <= Len(self'.data)
              /\ HasAttr(self'.data[k], f)
              /\ self'.data[k][f].t = "list"
              /\ Len(self'.data[k][f].l) >= Len(self.data[k][f].l)
              /\ SubSeq(self'.data[k][f].l, 1, Len(self.data[k][f].l)) = self.data[k][f].l]_vars

\* C16 witness: a field that held a list was given a further value and
\* holds a list of three.
C16_Witness ==
    \E k \in Entries : \E f \in DOMAIN self.data[k] :
        /\ self.data[k][f].t = "list"
        /\ Len(self.data[k][f].l) = 3
        /\ Len(log[k][f]) = 3

\* A step of the main loop of the text backend that read a content line.
ReadsLine == backend = "FT" /\ pc = "parse" /\ nread' = nread + 1

\* The line just read is a continuation line: it has no tag at its start.
IsContinuation(line) == line # EOF /\ ~Matches(line)

\* The last line was a tagged field line whose value is kept as it is under
\* its own tag: not a boundary tag, no handler, no rename, not a
\* concatenation field, not dropped by parse_only.
PlainTag(p, tag) ==
    /\ tag \notin {NoTag, start_tag, end_tag}
    /\ GetHandler(p, tag) = "absent"
    /\ tag \notin DOMAIN p.tags
    /\ tag \notin p.concat_fields
    /\ ~Filtered(p, tag)

UnknownTag(p, tag) ==
    /\ tag # NoTag
    /\ GetHandler(p, tag) = "absent"
    /\ tag \notin DOMAIN p.tags
    /\ tag \notin {p.tags[t] : t \in DOMAIN p.tags}

\* The step handed a further value to the merge for field f of Entry k.
LogGrew(k, f) ==
    \/ k > Len(log)
    \/ f \notin DOMAIN log[k]
    \/ Len(log'[k][f]) > Len(log[k][f])

\* Value v of a field holds d as the value last merged into it: as the
\* scalar itself, as the last element of a list, or as the end of the
\* joined string.
HoldsLast(v, d) ==
    \/ v = d
    \/ v.t = "list" /\ v.l # <<>> /\ v.l[Len(v.l)] = d
    \/ /\ v.t = "str" /\ Len(v.s) >= Len(Unicode(d))
       /\ SubSeq(v.s, Len(v.s) - Len(Unicode(d)) + 1, Len(v.s)) = Unicode(d)

\* C17: unknown tags are not errors.  Whenever handle() is given a
\* non-empty value under a tag with no handler and no rename, no exception
\* leaves it and the active Entry afterwards holds that value, unchanged,
\* under the raw tag name.
C17_UnknownStored ==
    [][\A k \in 1..Len(log') : \A f \in DOMAIN log'[k] :
          (/\ UnknownTag(self, f)
           /\ LogGrew(k, f)
           /\ Truthy(log'[k][f][Len(log'[k][f])]))
          => /\ pc' # "raised"
             /\ k <= Len(self'.data)
             /\ HasAttr(self'.data[k], f)
             /\ HoldsLast(self'.data[k][f], log'[k][f][Len(log'[k][f])])]_vars

\* A text is a decimal integer / a decimal number with a point, possibly
\* with spaces around it.
LooksInt(raw) ==
    LET u == Strip(raw) IN u # <<>> /\ \A i \in 1..Len(u) : u[i] \in Digits

LooksFloat(raw) ==
    LET u == Strip(raw) IN
    /\ \E i \in 1..Len(u) :
          /\ u[i] = "."
          /\ \A j \in 1..Len(u) : j # i => u[j] \in Digits
    /\ \E j \in 1..Len(u) : u[j] \in Digits

\* The value text of the last line read.
RawOf(line) == SubSeq(line, 4, Len(line) - 1)

\* C19: numeric coercion in the text backend.  The value the driver is
\* handed for a tagged line is an int when the text is an integer, else a
\* float when it is a decimal number, else the text itself, unchanged; a
\* four-digit year gives the Entry an integer-typed field.
C19_NumericCoercion ==
    (backend = "FT" /\ nread = 2 /\ self.line = ValueLine(RawOf(self.line))) =>
        LET raw == RawOf(self.line)
            given == IF "PY" \in DOMAIN log[1] THEN log[1]["PY"] ELSE <<>>
        IN  /\ raw # <<>> => Len(given) = 1
            /\ raw # <<>> =>
                  /\ given[1].t = (IF LooksInt(raw) THEN "int"
                                    ELSE IF LooksFloat(raw) THEN "float" ELSE "str")
                  /\ given[1].t = "str" => given[1].s = raw
            /\ (Len(raw) = 4 /\ (\A i \in 1..4 : raw[i] \in Digits)
                   /\ raw # <<"0", "0", "0", "0">>)
                  => /\ HasAttr(self.data[1], "PY")
                     /\ self.data[1]["PY"] = PyInt(DropZeros(raw))

\* C19 witness: the line 'PY 1001' gave the Entry the integer 1001.
C19_Witness ==
    /\ backend = "FT" /\ nread = 2
    /\ self.line = ValueLine(<<"1", "0", "0", "1">>)
    /\ self.data[1]["PY"] = PyInt(<<"1", "0", "0", "1">>)

\* C20: determinism.  Two parses of the same input with the same parser
\* class, both unrestricted, return Entry sequences of the same length
\* whose Entries are field-for-field identical, the fields the hooks wrote
\* included.
C20_Deterministic ==
    (pc = "done" /\ pcFull = "done" /\ ~self.has_parse_only) => self.data = full.data

\* C21: the triple backend's merge policy is the shared driver's.  After
\* any sequence of (tag, data) pairs handed to both handle() methods, with
\* no handler registered, the two active Entries have the same fields with
\* the same values.
C21_SameMerge ==
    backend = "handle" => self.data = full.data

\* C22: exclusive ownership.  Once parse() has returned the Entries, no
\* later operation on the parser (a second parse() call, a further handle()
\* call) changes any of them or the sequence.
C22_NoReference ==
    [][(pc = "done" /\ pc' = "done") => self'.data = self.data]_vars

\* Field f of Entry k before the step is absent (the Entry itself may not
\* exist yet) or holds None or ''.
AbsentOrEmpty(k, f) ==
    \/ k > Len(self.data)
    \/ ~HasAttr(self.data[k], f)
    \/ NoneOrEmpty(self.data[k][f])

\* C23: merge step, field absent or empty.  Whenever handle() merges a
\* non-empty scalar value into a field that is not a concatenation field
\* and that the active Entry does not have, or has with the value None or
\* '', the field afterwards holds exactly the incoming value.
C23_SetDirectly ==
    [][\A k \in 1..Len(log') : \A f \in DOMAIN log'[k] :
          LET d == log'[k][f][Len(log'[k][f])] IN
          (/\ LogGrew(k, f)
           /\ Truthy(d) /\ d.t # "list"
           /\ f \notin self.concat_fields
           /\ AbsentOrEmpty(k, f))
          => /\ k <= Len(self'.data)
             /\ HasAttr(self'.data[k], f)
             /\ self'.data[k][f] = d]_vars

\* C24: merge step, list and promotion.  Whenever handle() merges a value
\* into a field that is not a concatenation field and that the active
\* Entry has with a list or a non-empty scalar, the field afterwards holds
\* the list with the value appended as its last element, respectively the
\* two-element list [old, new]; the Entry has the same fields as before and
\* every other field keeps its value.
C24_AppendPromote ==
    [][(ReadsLine /\ self'.line # EOF) =>
          LET r == FTNext(self, <<self'.line>>)
              b == Boundary(r.p, FTIsStart(r.tag), FTIsEnd(r.tag))
              f == Rename(b, r.tag)
              h == GetHandler(b, r.tag)
              d == ApplyHandler(h, Normalize(r.data))
              e == b.data[Len(b.data)]
          IN  (/\ ~Skipped(r.tag, r.data) /\ ~Filtered(b, r.tag) /\ h # "raise"
               /\ f \notin b.concat_fields
               /\ HasAttr(e, f)
               /\ ~NoneOrEmpty(e[f]))
              => /\ pc' = "parse"
                 /\ Len(self'.data) = Len(b.data)
                 /\ DOMAIN self'.data[Len(b.data)] = DOMAIN e
                 /\ self'.data[Len(b.data)][f] =
                       IF e[f].t = "list" THEN PyList(Append(e[f].l, d))
                       ELSE PyList(<<e[f], d>>)
                 /\ \A g \in DOMAIN e \ {f} : self'.data[Len(b.data)][g] = e[g]]_vars

\* C24 witness: the lines 'AU a', 'PY 1', 'PY 1' gave the Entry PY = [1, 1]
\* next to the untouched AU = 'a'.
C24_Witness ==
    /\ backend = "FT" /\ pc = "parse" /\ Len(self.data) = 1
    /\ DOMAIN self.data[1] = {"AU", "PY"}
    /\ self.data[1]["AU"] = Str(<<"a">>)
    /\ self.data[1]["PY"] = PyList(<<PyInt(<<"1">>), PyInt(<<"1">>)>>)

\* C25: merge step, concatenation.  Whenever handle() of a parser without
\* handle_<tag> methods merges a value into a field in concat_fields, no exception leaves it
\* and the field afterwards holds existing ' ' incoming, with exactly one
\* space between the two texts, or the incoming value itself when the
\* active Entry did not have the field.
C25_ConcatJoin ==
    [][(ReadsLine /\ self'.line # EOF) =>
          LET r == FTNext(self, <<self'.line>>)
              b == Boundary(r.p, FTIsStart(r.tag), FTIsEnd(r.tag))
              f == Rename(b, r.tag)
              d == Normalize(r.data)
              e == b.data[Len(b.data)]
          IN  (/\ ~Skipped(r.tag, r.data) /\ ~Filtered(b, r.tag)
               /\ b.handler = "absent"
               /\ f \in b.concat_fields)
              => /\ pc' = "parse"
                 /\ Len(self'.data) = Len(b.data)
                 /\ HasAttr(self'.data[Len(b.data)], f)
                 /\ self'.data[Len(b.data)][f] =
                       IF HasAttr(e, f)
                       THEN Str(Unicode(e[f]) \o <<" ">> \o Unicode(d))
                       ELSE d]_vars

\* C26: every yielded Entry is finalized.  When parse() has returned,
\* postprocess_entry has run at least once on every Entry of the returned
\* sequence.
C26_AllFinalized ==
    (backend = "FT" /\ pc = "done") => \A k \in Entries : finalized[k] >= 1

\* C27: no mutation after finalization.  A step after which
\* postprocess_entry has run on an Entry (the step that reads its end-tag
\* line, and every later step) leaves that Entry as it was: nothing is
\* merged into it by the end-tag line itself or by any line after it.
C27_FrozenAfterEnd ==
    [][backend = "FT" =>
          \A k \in Entries :
              finalized'[k] >= 1 =>
                  /\ k <= Len(self'.data)
                  /\ self'.data[k] = self.data[k]]_vars

\* C28: selective parsing drops everything outside the requested subset.
\* In a parse with parse_only given, every field of every Entry is the
\* field of a raw tag of the computed subset; when the subset is empty no
\* Entry has any field.
C28_OnlyRequested ==
    (backend = "FT" /\ self.has_parse_only) =>
        \A k \in Entries :
            DOMAIN self.data[k] \subseteq {Rename(self, t) : t \in self.parse_only}

\* C29: every non-empty value is kept.  Whenever the text backend (no
\* handle_<tag> methods) reads a tagged or continuation line whose value is
\* not empty and whose tag is not filtered out, the active Entry afterwards
\* holds that value in the line's field (concatenation fields aside): as
\* the scalar, or as the last element of the field's list.
C29_ValueKept ==
    [][(ReadsLine /\ self'.line # EOF) =>
          LET r == FTNext(self, <<self'.line>>)
              b == Boundary(r.p, FTIsStart(r.tag), FTIsEnd(r.tag))
              f == Rename(b, r.tag)
              d == Normalize(r.data)
          IN  (/\ r.tag # NoTag /\ ~NoneOrEmpty(r.data)
               /\ ~Filtered(b, r.tag)
               /\ b.handler = "absent"
               /\ f \notin b.concat_fields)
              => /\ pc' = "parse"
                 /\ Len(self'.data) = Len(b.data)
                 /\ HasAttr(self'.data[Len(b.data)], f)
                 /\ HoldsLast(self'.data[Len(b.data)][f], d)]_vars

\* A tagged line with nothing after the tag.
EmptyValueLine(line) == line # EOF /\ Matches(line) /\ Group2(line) = <<>>

\* C30: empty data updates boundaries only.  A step of the main loop that
\* reads a tagged line without a value changes no field of any existing
\* Entry and raises nothing; it runs postprocess_entry on the active Entry
\* exactly when the tag is the end tag, appends a fresh empty Entry exactly
\* when the tag is the start tag, and leaves last_tag set to the line's tag.
C30_EmptyData ==
    [][(ReadsLine /\ EmptyValueLine(self'.line)) =>
          LET tag == TagName(self'.line[1], self'.line[2])
              n == Len(self.data)
          IN  /\ pc' = "parse"
              /\ \A k \in Entries : self'.data[k] = self.data[k]
              /\ finalized'[n] = finalized[n] + (IF tag = end_tag THEN 1 ELSE 0)
              /\ Len(self'.data) = n + (IF tag = start_tag THEN 1 ELSE 0)
              /\ tag = start_tag => self'.data[n + 1] = EmptyEntry
              /\ self'.last_tag = tag]_vars

\* C30 witness: after 'AU a' the line 'AU' (no value), then a bare start-tag
\* line: the first Entry still holds AU = 'a' alone, a second, empty Entry
\* was appended and last_tag is the start tag.
C30_Witness ==
    /\ backend = "FT" /\ pc = "parse" /\ nread = 4
    /\ self.line = <<"S", "T", "\n">>
    /\ self.last_tag = start_tag
    /\ Len(self.data) = 2
    /\ self.data[1] = [f \in {"AU"} |-> Str(<<"a">>)]
    /\ self.data[2] = EmptyEntry
    /\ log[1]["AU"] = <<Str(<<"a">>)>>

\* C31: XML field attribution.  When parse() has returned, the k-th Entry
\* belongs to the k-th entry element of the document: there is no Entry
\* beyond the last entry element, so an element that closed after the last
\* entry element (or the root itself) has contributed to no yielded Entry.
C31_Attribution ==
    (backend = "XML" /\ pc = "done") => Len(self.data) <= nstart

\* The subjects of the graph that open() retains: those with an rdf:type
\* among the entry elements.
Retained(p) ==
    {x \in DOMAIN p.graph :
        \E i \in 1..Len(p.entry_elements) :
            Triple(RdfType, p.entry_elements[i]) \in p.graph[x]}

\* C32: triple backend, one Entry per subject.  When parse() has returned,
\* it holds exactly one Entry per distinct retained subject, and
\* postprocess_entry has run exactly once on each.
C32_OnePerSubject ==
    (backend = "RDF" /\ pc = "done") =>
        /\ Len(self.data) = Cardinality(Retained(self))
        /\ \A k \in Entries : finalized[k] = 1

\* The main loop has just handled the pair of a line under a tag, and
\* handle() returned.
HandledLine ==
    /\ backend = "FT" /\ pc = "parse"
    /\ self.line # EOF
    /\ self.last_tag # NoTag
    /\ self.last_tag = self.current_tag

\* The data of the pair next() returned for a line.
LineData(line) ==
    IF Matches(line) THEN Cast(Group2(line)) ELSE Cast(Strip(line))

\* C33: handler, then rename.  After handle() has merged the pair of a
\* line (data not skipped, tag not filtered out), the active Entry holds,
\* as the value last merged, handler(data) when the raw tag has a
\* handle_<tag> method and data itself otherwise; it holds it in the field
\* tags[tag] when the raw tag is in the registry and in the field named by
\* the raw tag otherwise.  (A field stuck at None or '' keeps that value.)
C33_HandlerThenRename ==
    HandledLine =>
        LET tag == self.last_tag
            data == Normalize(LineData(self.line))
            value == IF tag = HandledTag /\ self.handler # "absent"
                     THEN ApplyHandler(self.handler, data) ELSE data
            field == IF tag \in DOMAIN self.tags THEN self.tags[tag] ELSE tag
            e == self.data[Len(self.data)]
        IN  (Truthy(data) /\ ~Filtered(self, tag)) =>
                /\ HasAttr(e, field)
                /\ NoneOrEmpty(e[field]) \/ HoldsLast(e[field], value)

\* C33 witness: with handle_TI wrapping its argument in a list and TI
\* renamed to title, the line 'TI a' gave the Entry title = ['a'] and no
\* field TI.
C33_Witness ==
    /\ HandledLine
    /\ self.line = <<"T", "I", " ", "a", "\n">>
    /\ self.handler = "list"
    /\ "TI" \in DOMAIN self.tags
    /\ DOMAIN self.data[Len(self.data)] = {"title"}
    /\ self.data[Len(self.data)]["title"] = PyList(<<Str(<<"a">>)>>)

\* C34: continuation resolution.  After every pair the main loop handled,
\* last_tag is that pair's tag; and a continuation line is given the tag of
\* the nearest tagged line before it (the tag the previous line was read
\* under), whether or not that line's pair was stored.
C34_ContinuationTag ==
    [][(ReadsLine /\ self'.line # EOF) =>
          /\ pc' = "parse" => self'.last_tag = self'.current_tag
          /\ IsContinuation(self'.line) => self'.current_tag = self.current_tag]_vars

\* C35: only the active Entry changes.  Every step leaves all Entries but
\* the last one of the list as they were; the list only grows at its end,
\* except that the XML backend's parse() removes one Entry, the last and
\* empty one, when it returns.
C35_OnlyActiveChanges ==
    [][/\ \A k \in 1..(Len(self'.data) - 1) :
             k <= Len(self.data) => self'.data[k] = self.data[k]
       /\ \/ Len(self'.data) >= Len(self.data)
          \/ /\ backend = "XML" /\ pc' = "done"
             /\ Len(self'.data) = Len(self.data) - 1
             /\ self.data[Len(self.data)] = EmptyEntry
             /\ self'.data = SubSeq(self.data, 1, Len(self.data) - 1)]_vars

\* C35 witness: parse() has returned for a document with two entry
\* elements; the trailing empty Entry was removed and the first Entry still
\* holds what its element gave it.
C35_Witness ==
    /\ backend = "XML" /\ pc = "done"
    /\ nstart = 2 /\ Len(self.data) = 2
    /\ self.data[1] # EmptyEntry
    /\ DOMAIN self.data[1] = DOMAIN log[1]

\* C36: lines before the first record are discarded.  While start() reads
\* the lines before the first start tag there is no Entry and no field was
\* seen; when it has returned there is one Entry, without any field, and
\* nothing of the lines read so far is kept for a later merge.
C36_HeaderDiscarded ==
    backend = "FT" =>
        /\ pc = "start" => (self.data = <<>> /\ self.fields = {} /\ log = <<>>)
        /\ pc = "ready" =>
              /\ self.data = <<EmptyEntry>>
              /\ self.fields = {}
              /\ log = <<NoLog>>
              /\ self.last_tag = NoTag

\* C36 witness: start() has returned after reading two lines and then the
\* first start-tag line; the one Entry is empty.
C36_Witness ==
    /\ backend = "FT" /\ pc = "ready"
    /\ nread = 3 /\ nstart = 1
    /\ IsStartLine(self.line)
    /\ self.data = <<EmptyEntry>>

\* C37: parse_wos record counting.  For a header-valid input no exception
\* leaves the loop on an end-marker line, and the returned list holds one
\* dictionary per start marker of the input, in input order, none of them
\* twice.
C37_WosRecordCount ==
    backend = "WOS" =>
        /\ pc = "raised" => Slice(self.line, 0, 2) # paper_end_key
        /\ pc = "done" => self.wos_list = [i \in 1..nstart |-> i]

\* The texts of the source lines vs joined with sep.
RECURSIVE WosJoin(_, _)
WosJoin(vs, sep) ==
    IF Len(vs) = 1 THEN vs[1].s
    ELSE vs[1].s \o <<sep>> \o WosJoin(Tail(vs), sep)

\* C38: parse_wos list fields.  In every returned dictionary a multi-line
\* tag holds the ordered list with exactly one element per source line of
\* that tag, any other string field holds its lines joined with a single
\* space, and a list field that no line populated is still None.
C38_WosListFields ==
    (backend = "WOS" /\ pc = "done") =>
        \A i \in 1..Len(self.wos_list) :
            LET k == self.wos_list[i]
                d == self.heap[k]
            IN  /\ \A f \in DOMAIN log[k] \cap multi_line_keys :
                      d[f] = PyList(log[k][f])
                /\ \A f \in DOMAIN log[k] \ (list_keys \cup int_keys) :
                      d[f] = Str(WosJoin(log[k][f], " "))
                /\ \A f \in (list_keys \cap DOMAIN d) \ DOMAIN log[k] :
                      d[f] = PyNone

\* C39: repeated parse is idempotent.  On a text-backend parser without
\* deriving hooks, a call of parse() made after parse() reached the end of
\* the input ends normally, creates no Entry and leaves self.data, the list
\* both calls return, with the same Entries and the same field values.
C39_ParseAgainSame ==
    [][(backend = "FT" /\ pc = "done" /\ self.hook_kind = "observe"
          /\ finalized' # finalized)
       => (pc' = "done" /\ self'.data = self.data)]_vars

\* parse() has been called again on a parser whose last Entry holds a list.
C39_Witness ==
    /\ backend = "FT" /\ pc = "done"
    /\ self.hook_kind = "observe"
    /\ finalized[Len(finalized)] = 2
    /\ Len(self.data) = 2
    /\ HasAttr(self.data[Len(self.data)], "AU")
    /\ self.data[Len(self.data)]["AU"].t = "list"

====
